---- MODULE Spec2Model ----
(***************************************************************************)
(* A model of skt/misc.py: safe_popen, retry_safe_popen (with the          *)
(* retrying_on_exception decorator applied to it) and is_task_waived.      *)
(*                                                                         *)
(* Text is a sequence of Unicode code points, bytes are a sequence of      *)
(* integers 0..255; Python's None is an option record with isNone = TRUE.  *)
(* Three specifications share the module:                                  *)
(*   Spec        one call of retry_safe_popen                              *)
(*   SpecPopen   one call of safe_popen                                    *)
(*   SpecWaived  one call of is_task_waived                                *)
(***************************************************************************)
EXTENDS Integers, Sequences, FiniteSets

VARIABLES
    pc,               \* retry_safe_popen: "calling" | "sleeping" | "done"
    err_exc_strings,  \* retry_safe_popen: the list of trigger strings
    calls,            \* one entry per safe_popen invocation: [proc, exc]
    events,           \* the invocations and the delays, in order
    log,              \* the log entries emitted during the call
    outcome,          \* what the caller of retry_safe_popen gets
    popen_pc,         \* safe_popen: "calling" | "done"
    popen_proc,       \* safe_popen: the behaviour of the child process
    popen_ret,        \* safe_popen: what its caller gets
    w_pc,             \* is_task_waived: "calling" | "done"
    task,             \* is_task_waived: the xml node
    waived            \* is_task_waived: what its caller gets

vars == <<pc, err_exc_strings, calls, events, log, outcome,
          popen_pc, popen_proc, popen_ret, w_pc, task, waived>>

retry_vars == <<pc, err_exc_strings, calls, events, log, outcome>>
popen_vars == <<popen_pc, popen_proc, popen_ret>>
waived_vars == <<w_pc, task, waived>>

----------------------------------------------------------------------------
(* Bounds of the model *)

\* longest err_exc_strings list
MaxTriggers == 2
\* most bytes a child writes to stderr in a retry_safe_popen attempt
MaxErrLen == 2
\* most bytes a child writes to a stream in the safe_popen specification
MaxStreamLen == 2
\* most children of the task node
MaxChildren == 2

----------------------------------------------------------------------------
(* Python values *)

None == [isNone |-> TRUE, v |-> <<>>]
Some(x) == [isNone |-> FALSE, v |-> x]

RECURSIVE SeqsUpTo(_, _)
SeqsUpTo(S, n) ==
    IF n = 0 THEN {<<>>}
    ELSE LET shorter == SeqsUpTo(S, n - 1)
         IN  shorter \cup {Append(s, x) : s \in shorter, x \in S}

\* the outcome of a call: a value returned or an exception raised
Returned(v) == [kind |-> "returned", exc |-> "none", value |-> v]
Raised(e) == [kind |-> "raised", exc |-> e, value |-> <<>>]
NotCalled == [kind |-> "none", exc |-> "none", value |-> <<>>]

----------------------------------------------------------------------------
(* str and bytes operations used by the module *)

\* bytes.decode('utf-8'), for one- and two-byte sequences
RECURSIVE decode(_)
decode(b) ==
    IF b = <<>> THEN [ok |-> TRUE, text |-> <<>>]
    ELSE IF b[1] < 128
    THEN LET r == decode(Tail(b))
         IN  [ok |-> r.ok, text |-> IF r.ok THEN <<b[1]>> \o r.text ELSE <<>>]
    ELSE IF b[1] \in 194..223 /\ Len(b) >= 2 /\ b[2] \in 128..191
    THEN LET r == decode(SubSeq(b, 3, Len(b)))
         IN  [ok |-> r.ok,
              text |-> IF r.ok
                       THEN <<(b[1] - 192) * 64 + (b[2] - 128)>> \o r.text
                       ELSE <<>>]
    ELSE [ok |-> FALSE, text |-> <<>>]

\* sub in s
Contains(sub, s) ==
    \E i \in 0..(Len(s) - Len(sub)) : SubSeq(s, i + 1, i + Len(sub)) = sub

Whitespace == {9, 10, 11, 12, 13, 32}

RECURSIVE lstrip(_)
lstrip(s) ==
    IF s # <<>> /\ s[1] \in Whitespace THEN lstrip(Tail(s)) ELSE s

RECURSIVE rstrip(_)
rstrip(s) ==
    IF s # <<>> /\ s[Len(s)] \in Whitespace
    THEN rstrip(SubSeq(s, 1, Len(s) - 1))
    ELSE s

\* str.strip()
strip(s) == rstrip(lstrip(s))

\* str.lower(), on ASCII text
lower(s) == [i \in 1..Len(s) |-> IF s[i] \in 65..90 THEN s[i] + 32 ELSE s[i]]

----------------------------------------------------------------------------
(* safe_popen *)

\* `x if stream else ''`: None and b'' are both false
Truthy(stream) == ~stream.isNone /\ stream.v # <<>>

\* safe_popen that reports a launch failure as an empty result
safe_popen_swallow(proc) ==
    IF ~proc.launched THEN Returned(<<<<>>, <<>>, 127>>)
    ELSE LET out == IF Truthy(proc.out) THEN decode(proc.out.v)
                    ELSE [ok |-> TRUE, text |-> <<>>]
             err == IF Truthy(proc.err) THEN decode(proc.err.v)
                    ELSE [ok |-> TRUE, text |-> <<>>]
         IN  IF ~out.ok \/ ~err.ok THEN Raised("UnicodeDecodeError")
             ELSE Returned(<<out.text, err.text, proc.rc>>)

\* safe_popen that decodes without the `if stream else ''` guard
safe_popen_unguarded(proc) ==
    IF ~proc.launched THEN Raised("OSError")
    ELSE IF proc.out.isNone \/ proc.err.isNone THEN Raised("AttributeError")
    ELSE LET out == decode(proc.out.v)
             err == decode(proc.err.v)
         IN  IF ~out.ok \/ ~err.ok THEN Raised("UnicodeDecodeError")
             ELSE Returned(<<out.text, err.text, proc.rc>>)

\* safe_popen that drops the child's exit code
safe_popen_rc0(proc) ==
    IF ~proc.launched THEN Raised("OSError")
    ELSE LET out == IF Truthy(proc.out) THEN decode(proc.out.v)
                    ELSE [ok |-> TRUE, text |-> <<>>]
             err == IF Truthy(proc.err) THEN decode(proc.err.v)
                    ELSE [ok |-> TRUE, text |-> <<>>]
         IN  IF ~out.ok \/ ~err.ok THEN Raised("UnicodeDecodeError")
             ELSE Returned(<<out.text, err.text, 0>>)

\* proc is what the child does: whether Popen can start it, the bytes
\* communicate() hands back for each stream (None when the stream is not a
\* pipe) and its exit code
safe_popen(proc) ==
    IF ~proc.launched THEN Raised("OSError")
    ELSE LET out == IF Truthy(proc.out) THEN decode(proc.out.v)
                    ELSE [ok |-> TRUE, text |-> <<>>]
             err == IF Truthy(proc.err) THEN decode(proc.err.v)
                    ELSE [ok |-> TRUE, text |-> <<>>]
         IN  IF ~out.ok \/ ~err.ok THEN Raised("UnicodeDecodeError")
             ELSE Returned(<<out.text, err.text, proc.rc>>)

----------------------------------------------------------------------------
(* retry_safe_popen: the decorated function *)

Warning(msg) == [kind |-> "warning", msg |-> msg]

\* the loop over err_exc_strings, from its i-th element on
RECURSIVE err_loop(_, _, _)
err_loop(strs, i, stderr) ==
    IF i > Len(strs) THEN [raised |-> FALSE, warnings |-> <<>>]
    ELSE IF stderr # <<>> /\ Contains(strs[i], stderr)
    THEN [raised |-> TRUE, warnings |-> <<Warning(strip(stderr))>>]
    ELSE err_loop(strs, i + 1, stderr)

\* the check without `stderr and`
err_check_no_guard(strs, stderr) ==
    IF \E i \in 1..Len(strs) : Contains(strs[i], stderr)
    THEN [raised |-> TRUE, warnings |-> <<Warning(strip(stderr))>>]
    ELSE [raised |-> FALSE, warnings |-> <<>>]

\* the check comparing without regard to letter case
err_check_icase(strs, stderr) ==
    IF stderr # <<>> /\ \E i \in 1..Len(strs) : Contains(lower(strs[i]), lower(stderr))
    THEN [raised |-> TRUE, warnings |-> <<Warning(strip(stderr))>>]
    ELSE [raised |-> FALSE, warnings |-> <<>>]

\* the check raising on any stderr output
err_check_any_stderr(strs, stderr) ==
    IF stderr # <<>>
    THEN [raised |-> TRUE, warnings |-> <<Warning(strip(stderr))>>]
    ELSE [raised |-> FALSE, warnings |-> <<>>]

\* the check taking an empty list to mean "retry on any stderr"
err_check_empty_is_all(strs, stderr) ==
    IF stderr # <<>> /\ (strs = <<>> \/ \E i \in 1..Len(strs) : Contains(strs[i], stderr))
    THEN [raised |-> TRUE, warnings |-> <<Warning(strip(stderr))>>]
    ELSE [raised |-> FALSE, warnings |-> <<>>]

\* the check logging once per matching string before it raises
err_check_log_each(strs, stderr) ==
    LET hits == {i \in 1..Len(strs) : stderr # <<>> /\ Contains(strs[i], stderr)}
    IN  IF hits = {} THEN [raised |-> FALSE, warnings |-> <<>>]
        ELSE [raised |-> TRUE,
              warnings |-> [k \in 1..Cardinality(hits) |-> Warning(strip(stderr))]]

\* for err_str in err_exc_strings: if stderr and err_str in stderr: ...
err_check(strs, stderr) == err_loop(strs, 1, stderr)

\* One execution of the body of retry_safe_popen.  exc is the exception it
\* ends with ("none" when it returns), value the triple safe_popen gave it,
\* warnings what it logged.
retry_safe_popen(strs, proc) ==
    LET r == safe_popen(proc)
    IN  IF r.kind = "raised"
        THEN [exc |-> r.exc, value |-> <<>>, warnings |-> <<>>]
        ELSE LET c == err_check(strs, r.value[2])
             IN  [exc |-> IF c.raised THEN "RuntimeError" ELSE "none",
                  value |-> r.value,
                  warnings |-> c.warnings]

----------------------------------------------------------------------------
(* retrying_on_exception(RuntimeError), as applied to retry_safe_popen.     *)
(* skt/retrying.py is not among the sources; the wrapper follows section   *)
(* 4.2 of the specification: three attempts in all, a delay of three time  *)
(* units before each re-invocation, and on the last failed attempt a log   *)
(* entry and the last result returned, with nothing raised.                *)

\* the exception the decorator retries on
RetryOn == "RuntimeError"
\* attempts in total: the first one and the retries
MaxAttempts == 3
\* time units between a failed attempt and the next one
RetryDelay == 3

PopenEvent == [ev |-> "popen", secs |-> 0]
SleepEvent == [ev |-> "sleep", secs |-> RetryDelay]
Exhausted == [kind |-> "exhausted", msg |-> <<>>]

\* what a child process may do in an attempt of retry_safe_popen
ErrAlphabet == {32, 69}
ErrStreams ==
    {None, Some(<<195>>)}
        \cup {Some(b) : b \in SeqsUpTo(ErrAlphabet, MaxErrLen)}
\* stdout not captured and exit code 0, or b'OK' on stdout and exit code 1
OutAndExit == {[out |-> None, rc |-> 0], [out |-> Some(<<79, 75>>), rc |-> 1]}
ExitCodes == {0, 1}
\* Popen raises: the child never runs
NotLaunched == [launched |-> FALSE, out |-> None, err |-> None, rc |-> 0]
Procs ==
    {NotLaunched} \cup
    {[launched |-> TRUE, out |-> o.out, err |-> e, rc |-> o.rc] :
        o \in OutAndExit, e \in ErrStreams}

\* the lists a caller may pass as err_exc_strings
TriggerStrings == {<<>>, <<69>>, <<101>>}
TriggerLists == SeqsUpTo(TriggerStrings, MaxTriggers)

\* the wrapper calls the function once more
Invoke(p, r) ==
    /\ calls' = Append(calls, [proc |-> p, exc |-> r.exc])
    /\ events' = Append(events, PopenEvent)
    /\ UNCHANGED <<err_exc_strings, popen_vars, waived_vars>>

\* the function returns: so does the wrapper, with the function's value
AttemptReturns ==
    /\ pc = "calling"
    /\ \E p \in Procs :
        LET r == retry_safe_popen(err_exc_strings, p)
        IN  /\ r.exc = "none"
            /\ Invoke(p, r)
            /\ log' = log \o r.warnings
            /\ outcome' = Returned(r.value)
            /\ pc' = "done"

\* the function raises RetryOn and attempts are left: wait, then call again
AttemptRetries ==
    /\ pc = "calling"
    /\ Len(calls) + 1 < MaxAttempts
    /\ \E p \in Procs :
        LET r == retry_safe_popen(err_exc_strings, p)
        IN  /\ r.exc = RetryOn
            /\ Invoke(p, r)
            /\ log' = log \o r.warnings
            /\ outcome' = outcome
            /\ pc' = "sleeping"

\* the function raises RetryOn on the last attempt: log it and return the
\* last result, raising nothing
AttemptExhausted ==
    /\ pc = "calling"
    /\ Len(calls) + 1 >= MaxAttempts
    /\ \E p \in Procs :
        LET r == retry_safe_popen(err_exc_strings, p)
        IN  /\ r.exc = RetryOn
            /\ Invoke(p, r)
            /\ log' = log \o r.warnings \o <<Exhausted>>
            /\ outcome' = Returned(r.value)
            /\ pc' = "done"

\* the function raises anything else: the wrapper does not catch it
AttemptPropagates ==
    /\ pc = "calling"
    /\ \E p \in Procs :
        LET r == retry_safe_popen(err_exc_strings, p)
        IN  /\ r.exc \notin {"none", RetryOn}
            /\ Invoke(p, r)
            /\ log' = log \o r.warnings
            /\ outcome' = Raised(r.exc)
            /\ pc' = "done"

\* the delay before the next attempt
Sleep ==
    /\ pc = "sleeping"
    /\ events' = Append(events, SleepEvent)
    /\ pc' = "calling"
    /\ UNCHANGED <<err_exc_strings, calls, log, outcome, popen_vars, waived_vars>>

\* the values of the variables of the calls a specification does not make
Idle == NotLaunched
NoTask == [tag |-> "task", attrib |-> [name |-> None, value |-> None], children |-> <<>>]

Init ==
    /\ pc = "calling"
    /\ err_exc_strings \in TriggerLists
    /\ calls = <<>>
    /\ events = <<>>
    /\ log = <<>>
    /\ outcome = NotCalled
    /\ popen_pc = "idle" /\ popen_proc = Idle /\ popen_ret = NotCalled
    /\ w_pc = "idle" /\ task = NoTask /\ waived = NotCalled

Next ==
    \/ AttemptReturns
    \/ AttemptRetries
    \/ AttemptExhausted
    \/ AttemptPropagates
    \/ Sleep

Spec == Init /\ [][Next]_vars

----------------------------------------------------------------------------
(* One call of safe_popen *)

StreamAlphabet == {69, 169, 195}
Streams == {None} \cup {Some(b) : b \in SeqsUpTo(StreamAlphabet, MaxStreamLen)}
PopenProcs ==
    {NotLaunched} \cup
    {[launched |-> TRUE, out |-> o, err |-> e, rc |-> c] :
        o \in Streams, e \in Streams, c \in ExitCodes}

SafePopenReturns ==
    /\ popen_pc = "calling"
    /\ safe_popen(popen_proc).kind = "returned"
    /\ popen_ret' = safe_popen(popen_proc)
    /\ popen_pc' = "done"
    /\ UNCHANGED <<popen_proc, retry_vars, waived_vars>>

SafePopenRaises ==
    /\ popen_pc = "calling"
    /\ safe_popen(popen_proc).kind = "raised"
    /\ popen_ret' = safe_popen(popen_proc)
    /\ popen_pc' = "done"
    /\ UNCHANGED <<popen_proc, retry_vars, waived_vars>>

InitPopen ==
    /\ popen_pc = "calling"
    /\ popen_proc \in PopenProcs
    /\ popen_ret = NotCalled
    /\ pc = "idle" /\ err_exc_strings = <<>> /\ calls = <<>> /\ events = <<>>
    /\ log = <<>> /\ outcome = NotCalled
    /\ w_pc = "idle" /\ task = NoTask /\ waived = NotCalled

NextPopen == SafePopenReturns \/ SafePopenRaises

SpecPopen == InitPopen /\ [][NextPopen]_vars

----------------------------------------------------------------------------
(* is_task_waived *)

\* 'cki_waived'
cki_waived == <<99, 107, 105, 95, 119, 97, 105, 118, 101, 100>>
\* 'true'
true == <<116, 114, 117, 101>>

\* the elements below a node, in document order
RECURSIVE below(_)
RECURSIVE below_from(_, _)
below(node) == below_from(node.children, 1)
below_from(children, i) ==
    IF i > Len(children) THEN <<>>
    ELSE <<children[i]>> \o below(children[i]) \o below_from(children, i + 1)

IsParam(node) == node.tag = "param"

\* task.findall('.//param')
findall_param(node) == SelectSeq(below(node), IsParam)

\* param.attrib.get(key)
get(attrib, key) == IF key = "name" THEN attrib.name ELSE attrib.value

\* The body of the try: for one param.  exc is the exception it raises
\* ("none" if none), hit whether the param is a waiver.  None has no lower().
try_param(param) ==
    LET name == get(param.attrib, "name")
        value == get(param.attrib, "value")
    IN  IF name.isNone THEN [exc |-> "AttributeError", hit |-> FALSE]
        ELSE IF lower(name.v) # cki_waived THEN [exc |-> "none", hit |-> FALSE]
        ELSE IF value.isNone THEN [exc |-> "AttributeError", hit |-> FALSE]
        ELSE [exc |-> "none", hit |-> lower(value.v) = true]

\* the loop over the params, from the i-th on
RECURSIVE scan(_, _)
scan(params, i) ==
    IF i > Len(params) THEN Returned(FALSE)
    ELSE LET r == try_param(params[i])
         IN  IF r.exc = "ValueError" THEN scan(params, i + 1)
             ELSE IF r.exc # "none" THEN Raised(r.exc)
             ELSE IF r.hit THEN Returned(TRUE)
             ELSE scan(params, i + 1)

is_task_waived(t) == scan(findall_param(t), 1)

\* the tasks of the model: 'cki_waived', 'CKI_Waived', 'cki' or no name;
\* 'true', 'TRUE', 'false' or no value; params directly below the task or
\* one level further down
Names ==
    {None, Some(cki_waived), Some(<<67, 75, 73, 95, 87, 97, 105, 118, 101, 100>>),
     Some(<<99, 107, 105>>)}
Values ==
    {None, Some(true), Some(<<84, 82, 85, 69>>), Some(<<102, 97, 108, 115, 101>>)}
NoAttrib == [name |-> None, value |-> None]
ParamNodes ==
    {[tag |-> "param", attrib |-> [name |-> n, value |-> v], children |-> <<>>] :
        n \in Names, v \in Values}
ParamsNodes ==
    {[tag |-> "params", attrib |-> NoAttrib, children |-> <<p>>] : p \in ParamNodes}
Tasks ==
    {[tag |-> "task", attrib |-> NoAttrib, children |-> c] :
        c \in SeqsUpTo(ParamNodes \cup ParamsNodes, MaxChildren)}

WaivedReturns ==
    /\ w_pc = "calling"
    /\ is_task_waived(task).kind = "returned"
    /\ waived' = is_task_waived(task)
    /\ w_pc' = "done"
    /\ UNCHANGED <<task, retry_vars, popen_vars>>

WaivedRaises ==
    /\ w_pc = "calling"
    /\ is_task_waived(task).kind = "raised"
    /\ waived' = is_task_waived(task)
    /\ w_pc' = "done"
    /\ UNCHANGED <<task, retry_vars, popen_vars>>

InitWaived ==
    /\ w_pc = "calling"
    /\ task \in Tasks
    /\ waived = NotCalled
    /\ pc = "idle" /\ err_exc_strings = <<>> /\ calls = <<>> /\ events = <<>>
    /\ log = <<>> /\ outcome = NotCalled
    /\ popen_pc = "idle" /\ popen_proc = Idle /\ popen_ret = NotCalled

NextWaived == WaivedReturns \/ WaivedRaises

SpecWaived == InitWaived /\ [][NextWaived]_vars

----------------------------------------------------------------------------
(* What the claims speak of *)

\* the stream handed back no bytes: it was not captured, or nothing was written
EmptyStream(stream) == stream.isNone \/ stream.v = <<>>
\* the text the child wrote to a stream
StreamText(stream) == IF EmptyStream(stream) THEN <<>> ELSE decode(stream.v).text
Decodable(stream) == EmptyStream(stream) \/ decode(stream.v).ok
\* the invocation ran the child and produced a result triple
Completed(p) == p.launched /\ Decodable(p.out) /\ Decodable(p.err)
ResultOf(p) == <<StreamText(p.out), StreamText(p.err), p.rc>>

\* some trigger is a literal, case-sensitive substring of the text
LiteralMatch(strs, text) ==
    \E k \in 1..Len(strs) :
        \E a \in 1..(Len(text) - Len(strs[k]) + 1) :
            \A j \in 1..Len(strs[k]) : text[a + j - 1] = strs[k][j]
\* ... of a text that is not empty
Triggering(strs, text) == text # <<>> /\ LiteralMatch(strs, text)

\* the i-th attempt of the call met the retryable condition
Triggered(i) ==
    /\ Completed(calls[i].proc)
    /\ Triggering(err_exc_strings, StreamText(calls[i].proc.err))
\* safe_popen was invoked again after the i-th attempt, or is about to be
Retried(i) == i < Len(calls) \/ (i = Len(calls) /\ pc \in {"sleeping", "calling"})
\* the call returned the result of the i-th attempt, its last
ReturnedAfter(i) ==
    /\ i = Len(calls)
    /\ pc = "done"
    /\ outcome = Returned(ResultOf(calls[i].proc))

C2_RetryIffLiteralMatch ==
    \A i \in 1..Len(calls) :
        (i < MaxAttempts /\ Completed(calls[i].proc)) =>
            LET m == LiteralMatch(err_exc_strings, StreamText(calls[i].proc.err))
            IN  /\ Retried(i) <=> m
                /\ ~m => ReturnedAfter(i)

\* C2, amended: with attempts left, an attempt is followed by another one if
\* and only if its stderr text is not empty and some trigger is a literal,
\* case-sensitive substring of it; otherwise the call returns that attempt's
\* result with no further invocation.
C2_RetryIffNonEmptyMatch ==
    \A i \in 1..Len(calls) :
        (i < MaxAttempts /\ Completed(calls[i].proc)) =>
            /\ Retried(i) <=> Triggered(i)
            /\ ~Triggered(i) => ReturnedAfter(i)

C2_Witness ==
    /\ Len(calls) = 2
    /\ Triggered(1)
    /\ Completed(calls[2].proc)
    /\ StreamText(calls[2].proc.err) # <<>>
    /\ ~Triggered(2)
    /\ ReturnedAfter(2)

\* C5: with an empty err_exc_strings list, retry_safe_popen invokes
\* safe_popen exactly once and returns that invocation's result unchanged,
\* whatever its stderr text and exit code.
C5_EmptyListOneAttempt ==
    err_exc_strings = <<>> =>
        /\ Len(calls) <= 1
        /\ pc # "sleeping"
        /\ pc = "done" =>
              /\ Len(calls) = 1
              /\ Completed(calls[1].proc) => outcome = Returned(ResultOf(calls[1].proc))

C5_Witness ==
    /\ err_exc_strings = <<>>
    /\ pc = "done"
    /\ Len(calls) = 1
    /\ outcome.kind = "returned"
    /\ outcome.value[2] # <<>>
    /\ outcome.value[3] = 1

\* C6: when Popen cannot start the child, the failure reaches the caller of
\* retry_safe_popen as it was raised: it is not the retryable condition, no
\* attempt follows it and no result triple is returned.
C6_LaunchFailurePropagates ==
    \A i \in 1..Len(calls) :
        ~calls[i].proc.launched =>
            /\ calls[i].exc = "OSError"
            /\ i = Len(calls)
            /\ pc = "done"
            /\ outcome = Raised("OSError")

C6_Witness ==
    /\ Len(calls) = 2
    /\ Triggered(1)
    /\ ~calls[2].proc.launched
    /\ outcome.kind = "raised"

\* C7: when a stream of the child handed back no bytes (not captured, or
\* nothing written), safe_popen's field for it is the empty string, while the
\* other stream's field is that stream's decoded text and the exit code is
\* the child's.
C7_EmptyStreamEmptyString ==
    (popen_pc = "done" /\ Completed(popen_proc)) =>
        /\ popen_ret.kind = "returned"
        /\ EmptyStream(popen_proc.out) => popen_ret.value[1] = <<>>
        /\ EmptyStream(popen_proc.err) => popen_ret.value[2] = <<>>
        /\ ~EmptyStream(popen_proc.out) => popen_ret.value[1] = decode(popen_proc.out.v).text
        /\ ~EmptyStream(popen_proc.err) => popen_ret.value[2] = decode(popen_proc.err.v).text
        /\ popen_ret.value[3] = popen_proc.rc

C7_Witness ==
    /\ popen_pc = "done"
    /\ popen_proc.out.isNone
    /\ popen_proc.err = Some(<<195, 169>>)
    /\ popen_proc.rc = 1
    /\ popen_ret = Returned(<<<<>>, <<233>>, 1>>)

\* C8: the call starts with an invocation; every delay lasts RetryDelay (3)
\* time units and directly follows an attempt that met the retryable
\* condition; every invocation but the first directly follows a delay; and
\* the call ends on an invocation, not on a delay.
C8_OneDelayBetweenAttempts ==
    /\ \A k \in 1..Len(events) :
          /\ k = 1 => events[k].ev = "popen"
          /\ events[k].ev = "sleep" =>
                /\ k > 1
                /\ events[k - 1].ev = "popen"
                /\ events[k].secs = 3
                /\ Triggered(k \div 2)
          /\ (events[k].ev = "popen" /\ k > 1) => events[k - 1].ev = "sleep"
    /\ pc = "done" => (events # <<>> /\ events[Len(events)].ev = "popen")

C8_Witness ==
    /\ pc = "done"
    /\ Len(events) = 5
    /\ events[2].ev = "sleep"
    /\ events[4].ev = "sleep"
    /\ Completed(calls[3].proc)
    /\ ~Triggered(3)
    /\ outcome.kind = "returned"

\* the log of a call whose first n attempts are calls[1..n]
RECURSIVE ExpectedLog(_)
ExpectedLog(n) ==
    IF n = 0 THEN <<>>
    ELSE ExpectedLog(n - 1)
            \o (IF Triggered(n)
                THEN <<[kind |-> "warning",
                        msg |-> strip(StreamText(calls[n].proc.err))]>>
                ELSE <<>>)
            \o (IF Triggered(n) /\ n = MaxAttempts
                THEN <<[kind |-> "exhausted", msg |-> <<>>]>>
                ELSE <<>>)

\* C9: the log of a call holds, in the order of the attempts, one warning
\* with the trimmed stderr text for each attempt that met the retryable
\* condition (already there while the retry is pending), nothing for the
\* other attempts, and a retries-exhausted entry after the warning of a last
\* attempt that still met the condition.
C9_OneWarningPerTriggeredAttempt == log = ExpectedLog(Len(calls))

C9_Witness ==
    /\ pc = "done"
    /\ Len(calls) = MaxAttempts
    /\ Len(log) = MaxAttempts + 1
    /\ log[Len(log)].kind = "exhausted"
    /\ log[1].msg # StreamText(calls[1].proc.err)
    /\ \A k \in 1..Len(err_exc_strings) :
          Triggering(<<err_exc_strings[k]>>, StreamText(calls[1].proc.err))
    /\ Len(err_exc_strings) = 2

\* C10: an attempt whose stderr text is empty never signals the retryable
\* condition, even when a trigger is the empty string; and when a trigger is
\* the empty string every attempt whose stderr text is not empty signals it.
C10_EmptyStderrNeverSignals ==
    \A i \in 1..Len(calls) :
        Completed(calls[i].proc) =>
            LET text == StreamText(calls[i].proc.err)
            IN  /\ text = <<>> => calls[i].exc # RetryOn
                /\ (text # <<>> /\ \E k \in 1..Len(err_exc_strings) :
                                       err_exc_strings[k] = <<>>)
                      => calls[i].exc = RetryOn

C10_Witness ==
    /\ Len(calls) = 2
    /\ \E k \in 1..Len(err_exc_strings) : err_exc_strings[k] = <<>>
    /\ calls[1].exc = RetryOn
    /\ Completed(calls[2].proc)
    /\ StreamText(calls[2].proc.err) = <<>>
    /\ ReturnedAfter(2)

\* a param that is a waiver: name 'cki_waived' and value 'true', whatever
\* the letter case
IsWaiver(p) ==
    /\ ~p.attrib.name.isNone
    /\ ~p.attrib.value.isNone
    /\ lower(p.attrib.name.v) = cki_waived
    /\ lower(p.attrib.value.v) = true
\* a param with no name or no value
Malformed(p) == p.attrib.name.isNone \/ p.attrib.value.isNone
ParamsBelow(t) == SelectSeq(below(t), IsParam)
HasWaiver(t) == \E i \in 1..Len(ParamsBelow(t)) : IsWaiver(ParamsBelow(t)[i])
HasMalformed(t) == \E i \in 1..Len(ParamsBelow(t)) : Malformed(ParamsBelow(t)[i])

\* C3: is_task_waived raises nothing when a param below the task lacks its
\* name or value: the param counts as no waiver and the scan goes on, so the
\* call returns True exactly when a waiver is among the params.
C3_MalformedParamSkipped ==
    (w_pc = "done" /\ HasMalformed(task)) =>
        /\ waived.kind = "returned"
        /\ waived.value <=> HasWaiver(task)

\* C4: is_task_waived returns True exactly when some param below the task,
\* at any depth, is a waiver, and False otherwise, also for a task with no
\* params.
C4_TrueIffWaiverBelow ==
    w_pc = "done" =>
        /\ waived.kind = "returned"
        /\ waived.value <=> HasWaiver(task)

====
